---------------------------- MODULE Spec2Model ----------------------------
(***************************************************************************)
(* Model of scripts/stitch_clips.py: main() (the sequential segment loop,  *)
(* the concat list, the final render, the except/finally blocks) and       *)
(* process_segment() (input checks, the duration probe, the video         *)
(* operations, the alignment parser, the subtitle cues, the render).      *)
(*                                                                         *)
(* Two specifications share the variables:                                 *)
(*   Spec         one run of main() over 0..MaxSegs segments, with         *)
(*                process_segment() reduced to its effects on main();      *)
(*   SpecSegment  one call of process_segment(), statement by statement.   *)
(* Times are integers (one unit = 0.1 s).                                  *)
(***************************************************************************)
EXTENDS Integers, Sequences, FiniteSets, TLC

\* ---------------------------------------------------------------- bounds
MaxSegs == 3

VARIABLES
    \* ---- main()
    pc,             \* position in main()
    N,              \* len(segments)
    i,              \* loop index of `for i, section in enumerate(segments)`
    temp_files,     \* the list temp_files
    concat_list,    \* the lines written to inputs_<pid>.txt, in order
    fs,             \* files of work_dir (and the output) that exist
    created,        \* files this run has created
    remove_calls,   \* paths os.remove() was called on in the finally block
    stdout,         \* lines printed to standard output
    stderr,         \* kinds of lines printed to standard error
    exc,            \* the exception in flight ("none" when there is none)
    caught,         \* the exception main()'s `except Exception` received
    seg_result,     \* per segment: what its process_segment() call did
    final_result,   \* what the final out.run() did
    exit_status,    \* -1 while running, then the process exit status
    \* ---- process_segment()
    s_pc,               \* position in process_segment()
    seg,                \* the segment descriptor and the media files behind it
    audio_duration,     \* result of get_audio_duration(); -1 before the probe
    video_in,           \* options of ffmpeg.input(video_path, ...)
    video_ops,          \* the filters applied to v, in order
    audio_ops,          \* the filters applied to in_audio, in order
    ci,                 \* index of the alignment character being scanned (1-based)
    in_bracket,
    current_word,
    word_start,
    word_end,
    words_with_timing,
    render,             \* the arguments of ffmpeg.output(...).run(), once called
    s_exc               \* the exception process_segment() raised

main_vars == <<pc, N, i, temp_files, concat_list, fs, created, remove_calls,
               stdout, stderr, exc, caught, seg_result, final_result,
               exit_status>>

seg_vars == <<s_pc, seg, audio_duration, video_in, video_ops, audio_ops, ci,
              in_bracket, current_word, word_start, word_end,
              words_with_timing, render, s_exc>>

vars == <<main_vars, seg_vars>>

\* ------------------------------------------------------------ file names
InputsTxt == [kind |-> "inputs_txt", idx |-> 0]
OutputPath == [kind |-> "output", idx |-> 0]
TempPath(k) == [kind |-> "temp_seg", idx |-> k]

Range(s) == {s[k] : k \in 1..Len(s)}

PrependTemp(files, path) == <<path>> \o files

\* temp_files.append(temp_path)
AppendTemp(files, path) == Append(files, path)

\* process_segment() is not running.
NoSegment ==
    [video_exists |-> TRUE, audio_exists |-> TRUE, text |-> <<>>,
     has_alignment |-> FALSE, characters |-> <<>>,
     character_start_times_seconds |-> <<>>,
     character_end_times_seconds |-> <<>>,
     target_duration |-> 0, native_video_duration |-> 0,
     audio_file_duration |-> 0]

NoRender == [called |-> FALSE, t |-> -1, path_written |-> FALSE]

SegIdle ==
    /\ s_pc = "idle"
    /\ seg = NoSegment
    /\ audio_duration = -1
    /\ video_in = [stream_loop |-> 0]
    /\ video_ops = <<>>
    /\ audio_ops = <<>>
    /\ ci = 0
    /\ in_bracket = FALSE
    /\ current_word = <<>>
    /\ word_start = -1
    /\ word_end = -1
    /\ words_with_timing = <<>>
    /\ render = NoRender
    /\ s_exc = "none"

\* --------------------------------------------------------------- main()
Init ==
    /\ pc = "start"
    /\ N \in 0..MaxSegs
    /\ i = 0
    /\ temp_files = <<>>
    /\ concat_list = <<>>
    /\ fs = {}
    /\ created = {}
    /\ remove_calls = {}
    /\ stdout = <<>>
    /\ stderr = <<>>
    /\ exc = "none"
    /\ caught = "none"
    /\ seg_result = [k \in 0..(N - 1) |-> "pending"]
    /\ final_result = "pending"
    /\ exit_status = -1
    /\ SegIdle

\* `if not segments: print(...); sys.exit(1)` (before the try block)
NoSegments ==
    /\ pc = "start"
    /\ N = 0
    /\ stderr' = Append(stderr, "no_segments")
    /\ exit_status' = 1
    /\ pc' = "done"
    /\ UNCHANGED <<N, i, temp_files, concat_list, fs, created, remove_calls,
                   stdout, exc, caught, seg_result, final_result>>
    /\ UNCHANGED seg_vars

\* entering the try block
StartProcessing ==
    /\ pc = "start"
    /\ N > 0
    /\ stderr' = Append(stderr, "starting")
    /\ pc' = "loop"
    /\ UNCHANGED <<N, i, temp_files, concat_list, fs, created, remove_calls,
                   stdout, exc, caught, seg_result, final_result, exit_status>>
    /\ UNCHANGED seg_vars

\* ---- process_segment(section, i, temp_path, ...) as main() sees it.
\* Lines 35-38: a missing or non-existent video or audio file raises
\* FileNotFoundError before anything else is done for this segment.
SegmentInputError ==
    /\ pc = "loop"
    /\ i < N
    /\ seg_result' = [seg_result EXCEPT ![i] = "input_error"]
    /\ exc' = "FileNotFoundError"
    /\ pc' = "except"
    /\ UNCHANGED <<N, i, temp_files, concat_list, fs, created, remove_calls,
                   stdout, stderr, caught, final_result, exit_status>>
    /\ UNCHANGED seg_vars

\* Lines 9-19 and 42: get_audio_duration() logs and re-raises whatever the
\* probe raised; an ffmpeg.Error is logged again by process_segment()'s own
\* handler (223-227) and re-raised, any other exception passes through.
ProbeOutcome(kind) ==
    IF kind = "ffmpeg.Error"
    THEN [raised |-> "ffmpeg.Error", log |-> <<"probe_error", "ffmpeg_error">>]
    ELSE [raised |-> "Exception", log |-> <<"probe_error">>]

SegmentProbeError ==
    /\ pc = "loop"
    /\ i < N
    /\ \E kind \in {"ffmpeg.Error", "Exception"} :
          /\ exc' = ProbeOutcome(kind).raised
          /\ stderr' = stderr \o ProbeOutcome(kind).log
    /\ seg_result' = [seg_result EXCEPT ![i] = "probe_error"]
    /\ pc' = "except"
    /\ UNCHANGED <<N, i, temp_files, concat_list, fs, created, remove_calls,
                   stdout, caught, final_result, exit_status>>
    /\ UNCHANGED seg_vars

\* Lines 208-227: out.run() fails; the engine may have left a partial file at
\* temp_path. main() never reaches temp_files.append (line 311).
SegmentRenderError ==
    /\ pc = "loop"
    /\ i < N
    /\ \E partial \in BOOLEAN :
          /\ fs' = IF partial THEN fs \cup {TempPath(i)} ELSE fs
          /\ created' = IF partial THEN created \cup {TempPath(i)} ELSE created
    /\ stderr' = stderr \o <<"segment", "ffmpeg_error">>
    /\ seg_result' = [seg_result EXCEPT ![i] = "render_error"]
    /\ exc' = "ffmpeg.Error"
    /\ pc' = "except"
    /\ UNCHANGED <<N, i, temp_files, concat_list, remove_calls, stdout,
                   caught, final_result, exit_status>>
    /\ UNCHANGED seg_vars

\* Lines 309-311: the render succeeded; temp_path is appended.
SegmentRendered ==
    /\ pc = "loop"
    /\ i < N
    /\ fs' = fs \cup {TempPath(i)}
    /\ created' = created \cup {TempPath(i)}
    /\ stderr' = Append(stderr, "segment")
    /\ seg_result' = [seg_result EXCEPT ![i] = "ok"]
    /\ temp_files' = AppendTemp(temp_files, TempPath(i))
    /\ i' = i + 1
    /\ UNCHANGED <<pc, N, concat_list, remove_calls, stdout, exc, caught,
                   final_result, exit_status>>
    /\ UNCHANGED seg_vars

\* Lines 314-318: one line per entry of temp_files, in list order.
WriteConcatList ==
    /\ pc = "loop"
    /\ i = N
    /\ concat_list' = temp_files
    /\ fs' = fs \cup {InputsTxt}
    /\ created' = created \cup {InputsTxt}
    /\ stderr' = Append(stderr, "concatenating")
    /\ pc' = "final"
    /\ UNCHANGED <<N, i, temp_files, remove_calls, stdout, exc, caught,
                   seg_result, final_result, exit_status>>
    /\ UNCHANGED seg_vars

\* Line 314: open(inputs_txt_path, 'w') raises OSError.
WriteConcatListError ==
    /\ pc = "loop"
    /\ i = N
    /\ exc' = "OSError"
    /\ pc' = "except"
    /\ UNCHANGED <<N, i, temp_files, concat_list, fs, created, remove_calls,
                   stdout, stderr, caught, seg_result, final_result,
                   exit_status>>
    /\ UNCHANGED seg_vars

\* Lines 347-361: the final out.run() succeeds and the path is printed.
FinalRender ==
    /\ pc = "final"
    /\ final_result' = "ok"
    /\ fs' = fs \cup {OutputPath}
    /\ stderr' = Append(stderr, "rendering_final")
    /\ stdout' = Append(stdout, OutputPath)
    /\ pc' = "finally"
    /\ UNCHANGED <<N, i, temp_files, concat_list, created, remove_calls, exc,
                   caught, seg_result, exit_status>>
    /\ UNCHANGED seg_vars

\* Line 358: the final out.run() raises ffmpeg.Error.
FinalRenderError ==
    /\ pc = "final"
    /\ final_result' = "error"
    /\ stderr' = Append(stderr, "rendering_final")
    /\ exc' = "ffmpeg.Error"
    /\ pc' = "except"
    /\ UNCHANGED <<N, i, temp_files, concat_list, fs, created, remove_calls,
                   stdout, caught, seg_result, exit_status>>
    /\ UNCHANGED seg_vars

\* Line 365: sys.exit(1) puts SystemExit in flight.
HandlerSwallows(e) == "none"
HandlerExit(e) == "SystemExit"

\* Lines 363-365: except Exception as e: print(...); sys.exit(1)
ExceptHandler ==
    /\ pc = "except"
    /\ caught' = exc
    /\ stderr' = Append(stderr, "process_failed")
    /\ exc' = HandlerExit(exc)
    /\ pc' = "finally"
    /\ UNCHANGED <<N, i, temp_files, concat_list, fs, created, remove_calls,
                   stdout, seg_result, final_result, exit_status>>
    /\ UNCHANGED seg_vars

\* The status the interpreter exits with: 0 when main() returns, 1 for
\* SystemExit(1) and for an uncaught exception.
ExitStatus(e) == IF e = "none" THEN 0 ELSE 1

\* Lines 368-369: os.remove(inputs_txt_path) succeeds, or the file is absent.
FinallyInputs ==
    /\ pc = "finally"
    /\ IF InputsTxt \in fs
       THEN /\ fs' = fs \ {InputsTxt}
            /\ remove_calls' = remove_calls \cup {InputsTxt}
       ELSE UNCHANGED <<fs, remove_calls>>
    /\ pc' = "cleanup"
    /\ UNCHANGED <<N, i, temp_files, concat_list, created, stdout, stderr,
                   exc, caught, seg_result, final_result, exit_status>>
    /\ UNCHANGED seg_vars

\* Lines 368-369: os.remove(inputs_txt_path) raises; nothing guards it, so the
\* OSError leaves the finally block, replaces the exception in flight and the
\* loop over temp_files is never entered.
FinallyInputsError ==
    /\ pc = "finally"
    /\ InputsTxt \in fs
    /\ remove_calls' = remove_calls \cup {InputsTxt}
    /\ exc' = "OSError"
    /\ exit_status' = ExitStatus("OSError")
    /\ stderr' = Append(stderr, "traceback")
    /\ pc' = "done"
    /\ UNCHANGED <<N, i, temp_files, concat_list, fs, created, stdout, caught,
                   seg_result, final_result>>
    /\ UNCHANGED seg_vars

\* Lines 371-376: every file of temp_files that exists is removed; a failing
\* os.remove() is swallowed (`failing` are the ones that fail). Then the
\* interpreter exits.
CleanupTemps ==
    /\ pc = "cleanup"
    /\ \E failing \in SUBSET (Range(temp_files) \cap fs) :
          fs' = fs \ (Range(temp_files) \ failing)
    /\ remove_calls' = remove_calls \cup (Range(temp_files) \cap fs)
    /\ exit_status' = ExitStatus(exc)
    /\ pc' = "done"
    /\ UNCHANGED <<N, i, temp_files, concat_list, created, stdout, stderr,
                   exc, caught, seg_result, final_result>>
    /\ UNCHANGED seg_vars

Next ==
    \/ NoSegments
    \/ StartProcessing
    \/ SegmentInputError
    \/ SegmentProbeError
    \/ SegmentRenderError
    \/ SegmentRendered
    \/ WriteConcatList
    \/ WriteConcatListError
    \/ FinalRender
    \/ FinalRenderError
    \/ ExceptHandler
    \/ FinallyInputs
    \/ FinallyInputsError
    \/ CleanupTemps

Spec == Init /\ [][Next]_vars

\* ======================================================================
\* Claims about main()
\* ======================================================================
RenderStarted(k) == seg_result[k] \in {"ok", "render_error"}
AllRendered == \A k \in 0..(N - 1) : seg_result[k] = "ok"
AnyRenderFailed == \E k \in 0..(N - 1) : seg_result[k] = "render_error"
InOrder(files) ==
    /\ Len(files) = N
    /\ \A k \in 1..N : files[k] = TempPath(k - 1)

\* C1: when all N renders succeeded, the sequence of segment outputs handed
\* to the concatenation step (temp_files, and the concat list written from
\* it) has exactly N entries and entry k is the output of input segment k.
\* Renders run one after the other, so the only completion order the code
\* admits is the input order.
C1_OutputOrderIsInputOrder ==
    /\ AllRendered => InOrder(temp_files)
    /\ pc = "final" \/ final_result # "pending" => InOrder(concat_list)

C1_Witness == pc = "final" /\ N >= 2 /\ Len(concat_list) = N

\* C2: a failed segment render fails the whole run: the ffmpeg error reaches
\* main()'s handler, the exit status is non-zero, no final render is run and
\* nothing is written to standard output; standard output holds the output
\* path, once and alone, only when every segment render and the final render
\* succeeded.
C2_RenderFailureIsFatal ==
    /\ AnyRenderFailed =>
          /\ stdout = <<>>
          /\ final_result = "pending"
          /\ OutputPath \notin fs
          /\ pc \in {"except", "finally", "cleanup", "done"}
          /\ pc # "except" => caught = "ffmpeg.Error"
          /\ pc = "done" => exit_status = 1
    /\ stdout # <<>> =>
          /\ stdout = <<OutputPath>>
          /\ AllRendered
          /\ final_result = "ok"

C2_Witness ==
    /\ pc = "done"
    /\ AnyRenderFailed
    /\ \E k \in 0..(N - 1) : seg_result[k] = "ok"

\* C3 (as claimed): an input error in any segment aborts the run before the
\* render of any segment has started, so no state has a rendered segment and
\* an input error reported for another one.
C3_InputErrorBeforeAnyRender ==
    ~ \E j, k \in 0..(N - 1) :
          RenderStarted(j) /\ seg_result[k] = "input_error"

\* C4 (as claimed): a failed duration probe is recovered locally: no
\* exception is in flight after it and the run does not exit with an error.
C4_ProbeFailureIsRecovered ==
    \A k \in 0..(N - 1) :
        seg_result[k] = "probe_error" =>
            /\ exc = "none"
            /\ pc # "except"
            /\ exit_status # 1

\* C5 (as claimed): after a fatal error, os.remove() has been attempted on
\* every temporary file the run created (the failed segment's partial output
\* included), and a failing removal has not replaced the exit in flight.
C5_CleanupIsCompleteAndSilent ==
    pc = "done" /\ caught # "none" =>
        /\ created \subseteq remove_calls
        /\ exc = "SystemExit"

\* ======================================================================
\* process_segment(segment, index, output_path, width, height, font_settings)
\* ======================================================================
MaxChars == 5

Alphabet == {"[", "]", " ", "-", "\n", "a"}
Whitespace == {" ", "\n", "\t"}

CharSeqs == UNION {[1..n -> Alphabet] : n \in 0..MaxChars}

\* "[sigh] go now": "go" spans 0.6-0.8 s, "now" spans 0.9-1.3 s
ExampleChars ==
    <<"[", "s", "i", "g", "h", "]", " ", "g", "o", " ", "n", "o", "w">>
ExampleStarts == <<0, 1, 2, 3, 4, 5, 5, 6, 7, 8, 9, 10, 11>>
ExampleEnds == <<1, 2, 3, 4, 5, 5, 6, 7, 8, 9, 10, 11, 13>>

AudioDurations == {20, 50, 90}
TargetDurations == {20, 50}
NativeDurations == {0, 20, 40, 50}

\* Segments that vary the alignment characters; character k lasts from
\* k-1 to k.
AlignmentInputs ==
    {[video_exists |-> TRUE, audio_exists |-> TRUE, text |-> cs,
      has_alignment |-> TRUE, characters |-> cs,
      character_start_times_seconds |-> [k \in 1..Len(cs) |-> k - 1],
      character_end_times_seconds |-> [k \in 1..Len(cs) |-> k],
      target_duration |-> 50, native_video_duration |-> 50,
      audio_file_duration |-> 50] : cs \in CharSeqs}

\* Segments that vary the files and the three durations.
DurationInputs ==
    {[video_exists |-> ve, audio_exists |-> ae, text |-> tx,
      has_alignment |-> tx # <<>>,
      characters |-> IF tx # <<>> /\ full THEN ExampleChars ELSE <<>>,
      character_start_times_seconds |->
          IF tx # <<>> /\ full THEN ExampleStarts ELSE <<>>,
      character_end_times_seconds |->
          IF tx # <<>> /\ full THEN ExampleEnds ELSE <<>>,
      target_duration |-> td, native_video_duration |-> nd,
      audio_file_duration |-> ad] :
        ve \in BOOLEAN, ae \in BOOLEAN, tx \in {<<>>, ExampleChars},
        full \in BOOLEAN, td \in TargetDurations, nd \in NativeDurations,
        ad \in AudioDurations}

FallbackDurations == {30, 50}

\* Segments with text and no alignment data.
FallbackInputs ==
    {[video_exists |-> TRUE, audio_exists |-> TRUE, text |-> cs,
      has_alignment |-> FALSE, characters |-> <<>>,
      character_start_times_seconds |-> <<>>,
      character_end_times_seconds |-> <<>>,
      target_duration |-> ad, native_video_duration |-> 50,
      audio_file_duration |-> ad] :
        cs \in CharSeqs \ {<<>>}, ad \in FallbackDurations}

\* A few of them, for the specification of the whole call
FallbackSamples ==
    {f \in FallbackInputs : f.text \in {<<"a">>, <<"a", "-", "a">>}}

\* The start of one process_segment() call on a segment drawn from `inputs`
CallOn(inputs) ==
    /\ pc = "in_segment"
    /\ N = 1
    /\ i = 0
    /\ temp_files = <<>>
    /\ concat_list = <<>>
    /\ fs = {}
    /\ created = {}
    /\ remove_calls = {}
    /\ stdout = <<>>
    /\ stderr = <<>>
    /\ exc = "none"
    /\ caught = "none"
    /\ seg_result = [k \in 0..0 |-> "pending"]
    /\ final_result = "pending"
    /\ exit_status = -1
    /\ s_pc = "check"
    /\ seg \in inputs
    /\ audio_duration = -1
    /\ video_in = [stream_loop |-> 0]
    /\ video_ops = <<>>
    /\ audio_ops = <<>>
    /\ ci = 0
    /\ in_bracket = FALSE
    /\ current_word = <<>>
    /\ word_start = -1
    /\ word_end = -1
    /\ words_with_timing = <<>>
    /\ render = NoRender
    /\ s_exc = "none"

SegmentInit == CallOn(AlignmentInputs \cup DurationInputs \cup FallbackSamples)

\* Calls on segments with text and no alignment data
FallbackInit == CallOn(FallbackInputs)

parser_vars == <<ci, in_bracket, current_word, word_start, word_end,
                 words_with_timing>>

\* Lines 35-38
PS_InputError ==
    /\ s_pc = "check"
    /\ ~seg.video_exists \/ ~seg.audio_exists
    /\ s_exc' = "FileNotFoundError"
    /\ s_pc' = "raised"
    /\ UNCHANGED <<seg, audio_duration, video_in, video_ops, audio_ops,
                   parser_vars, render>>
    /\ UNCHANGED main_vars

\* Lines 9-13 and 42: the probe answers
PS_Probe ==
    /\ s_pc = "check"
    /\ seg.video_exists /\ seg.audio_exists
    /\ audio_duration' = seg.audio_file_duration
    /\ stderr' = Append(stderr, "segment")
    /\ s_pc' = "video"
    /\ UNCHANGED <<seg, video_in, video_ops, audio_ops, parser_vars, render,
                   s_exc>>
    /\ UNCHANGED <<pc, N, i, temp_files, concat_list, fs, created,
                   remove_calls, stdout, exc, caught, seg_result,
                   final_result, exit_status>>

\* Lines 14-19, 42 and 223-227: the probe raises and the exception leaves
\* process_segment()
PS_ProbeError ==
    /\ s_pc = "check"
    /\ seg.video_exists /\ seg.audio_exists
    /\ \E kind \in {"ffmpeg.Error", "Exception"} :
          /\ s_exc' = ProbeOutcome(kind).raised
          /\ stderr' = stderr \o ProbeOutcome(kind).log
    /\ s_pc' = "raised"
    /\ UNCHANGED <<seg, audio_duration, video_in, video_ops, audio_ops,
                   parser_vars, render>>
    /\ UNCHANGED <<pc, N, i, temp_files, concat_list, fs, created,
                   remove_calls, stdout, exc, caught, seg_result,
                   final_result, exit_status>>

Op(name, args) == [op |-> name, args |-> args]

\* Lines 48-64: the video chain. The input loops for ever (stream_loop=-1),
\* is trimmed to the audio's duration and then standardised.
ConformVideo(duration, native) ==
    <<Op("trim", <<duration>>), Op("setpts", <<"PTS-STARTPTS">>)>>

Standardise ==
    <<Op("scale", <<"width", "height", "decrease">>),
      Op("pad", <<"width", "height">>),
      Op("setsar", <<"1">>),
      Op("fps", <<30>>),
      Op("format", <<"yuv420p">>)>>

PS_VideoOps ==
    /\ s_pc = "video"
    /\ video_in' = [stream_loop |-> -1]
    /\ video_ops' =
          ConformVideo(audio_duration, seg.native_video_duration)
              \o Standardise
    /\ s_pc' = "subs"
    /\ UNCHANGED <<seg, audio_duration, audio_ops, parser_vars, render, s_exc>>
    /\ UNCHANGED main_vars

\* Line 67: `if text:` is false
PS_NoText ==
    /\ s_pc = "subs"
    /\ seg.text = <<>>
    /\ s_pc' = "output"
    /\ UNCHANGED <<seg, audio_duration, video_in, video_ops, audio_ops,
                   parser_vars, render, s_exc>>
    /\ UNCHANGED main_vars

\* Lines 74-88 and 108: alignment data is present
PS_BeginAlignment ==
    /\ s_pc = "subs"
    /\ seg.text # <<>>
    /\ seg.has_alignment
    /\ current_word' = <<>>
    /\ word_start' = -1
    /\ word_end' = -1
    /\ words_with_timing' = <<>>
    /\ in_bracket' = FALSE
    /\ ci' = 1
    /\ s_pc' = "scan"
    /\ UNCHANGED <<seg, audio_duration, video_in, video_ops, audio_ops,
                   render, s_exc>>
    /\ UNCHANGED main_vars

\* ------------------------------------------------- the alignment parser
\* Lines 111-116: '[' opens a directive, ']' closes it
BracketStateIgnored(in_b, char) == FALSE

BracketState(in_b, char) ==
    IF char = "[" THEN TRUE ELSE IF char = "]" THEN FALSE ELSE in_b

\* Lines 111-119: the character is dropped by one of the three `continue`s
Skipped(in_b, char) == char = "[" \/ char = "]" \/ in_b

KeepHyphens(word) == word

\* Lines 124 and 142: current_word.replace('--', '').replace('-', '')
DisplayWord(word) == SelectSeq(word, LAMBDA c : c # "-")

\* str.strip() leaves nothing
IsBlank(word) == \A k \in 1..Len(word) : word[k] \in Whitespace

\* Lines 124-130 and 142-148: the word is kept when its display text is not
\* blank
FinishWord(words, word, w_start, w_end) ==
    IF ~IsBlank(DisplayWord(word))
    THEN Append(words, [text |-> DisplayWord(word), start |-> w_start,
                        end |-> w_end])
    ELSE words

\* Lines 110-138: one iteration of `for i, char in enumerate(chars)`
PS_ScanChar ==
    /\ s_pc = "scan"
    /\ ci <= Len(seg.characters)
    /\ LET char == seg.characters[ci]
           starts == seg.character_start_times_seconds
           ends == seg.character_end_times_seconds
       IN  /\ in_bracket' = BracketState(in_bracket, char)
           /\ IF Skipped(in_bracket, char)
              THEN UNCHANGED <<current_word, word_start, word_end,
                               words_with_timing>>
              ELSE IF char = " "
              THEN IF current_word # <<>>
                   THEN /\ words_with_timing' =
                              FinishWord(words_with_timing, current_word,
                                         word_start, word_end)
                        /\ current_word' = <<>>
                        /\ word_start' = -1
                        /\ word_end' = -1
                   ELSE UNCHANGED <<current_word, word_start, word_end,
                                    words_with_timing>>
              ELSE /\ word_start' =
                         IF word_start = -1 THEN starts[ci] ELSE word_start
                   /\ word_end' = ends[ci]
                   /\ current_word' = Append(current_word, char)
                   /\ UNCHANGED words_with_timing
    /\ ci' = ci + 1
    /\ UNCHANGED <<s_pc, seg, audio_duration, video_in, video_ops, audio_ops,
                   render, s_exc>>
    /\ UNCHANGED main_vars

\* Lines 140-148: the loop is over; the pending word is added
PS_LastWord ==
    /\ s_pc = "scan"
    /\ ci > Len(seg.characters)
    /\ words_with_timing' =
          IF current_word # <<>>
          THEN FinishWord(words_with_timing, current_word, word_start,
                          word_end)
          ELSE words_with_timing
    /\ s_pc' = "draw"
    /\ UNCHANGED <<seg, audio_duration, video_in, video_ops, audio_ops, ci,
                   in_bracket, current_word, word_start, word_end, render,
                   s_exc>>
    /\ UNCHANGED main_vars

\* ------------------------------------------------------ the subtitle cues
DigitChars == <<"0", "1", "2", "3", "4", "5", "6", "7", "8", "9">>

RECURSIVE IntDigits(_)
IntDigits(n) ==
    IF n < 10 THEN <<DigitChars[n + 1]>>
    ELSE IntDigits(n \div 10) \o <<DigitChars[(n % 10) + 1]>>

\* Line 169: {w["start"]} in the f-string: the decimal text of the float
\* n/10 seconds
FormatSeconds(n) == IntDigits(n \div 10) \o <<".", DigitChars[(n % 10) + 1]>>

\* Line 155: quotes and colons are escaped
SafeWord(word) ==
    [k \in 1..Len(word) |->
        IF word[k] = "'" THEN "\\'" ELSE IF word[k] = ":" THEN "\\:"
        ELSE word[k]]

\* Line 169: enable=f'between(t,{w["start"]},{w["end"]})'
Enable(w) == <<FormatSeconds(w.start), FormatSeconds(w.end)>>

\* Lines 156-170
Drawtext(w) == Op("drawtext", <<SafeWord(w.text), Enable(w)>>)

\* Lines 151-170: one drawtext filter per word, in list order
PS_DrawWords ==
    /\ s_pc = "draw"
    /\ video_ops' = video_ops \o
          [k \in 1..Len(words_with_timing) |-> Drawtext(words_with_timing[k])]
    /\ s_pc' = "output"
    /\ UNCHANGED <<seg, audio_duration, video_in, audio_ops, parser_vars,
                   render, s_exc>>
    /\ UNCHANGED main_vars

\* ------------------------------------------- the even-distribution fallback
\* Line 70: re.sub(r'\[.*?\]', '', text). A match that starts at the '[' at p
\* ends at the nearest ']' that only characters other than a line break
\* separate from it ('.' does not match "\n"); 0 when there is none.
MatchEnd(text, p) ==
    LET closes == {l \in (p + 1)..Len(text) :
                      /\ text[l] = "]"
                      /\ \A m \in (p + 1)..(l - 1) : text[m] # "\n"}
    IN  IF closes = {} THEN 0
        ELSE CHOOSE l \in closes : \A x \in closes : l <= x

RECURSIVE RemoveDirectivesFrom(_, _)
RemoveDirectivesFrom(text, p) ==
    IF p > Len(text) THEN <<>>
    ELSE IF text[p] = "[" /\ MatchEnd(text, p) # 0
         THEN RemoveDirectivesFrom(text, MatchEnd(text, p) + 1)
         ELSE <<text[p]>> \o RemoveDirectivesFrom(text, p + 1)

RemoveDirectives(text) == RemoveDirectivesFrom(text, 1)

\* Line 71: .replace('--', ' ')
RECURSIVE ReplaceDoubleHyphens(_)
ReplaceDoubleHyphens(text) ==
    IF Len(text) < 2 THEN text
    ELSE IF text[1] = "-" /\ text[2] = "-"
         THEN <<" ">> \o ReplaceDoubleHyphens(SubSeq(text, 3, Len(text)))
         ELSE <<text[1]>> \o ReplaceDoubleHyphens(Tail(text))

\* Line 71: .replace('-', ' ')
ReplaceHyphens(text) ==
    [k \in 1..Len(text) |-> IF text[k] = "-" THEN " " ELSE text[k]]

\* Line 72: re.sub(r'\s+', ' ', clean_text)
RECURSIVE CollapseWhitespace(_)
CollapseWhitespace(text) ==
    IF text = <<>> THEN <<>>
    ELSE IF text[1] \in Whitespace
         THEN IF Len(text) >= 2 /\ text[2] \in Whitespace
              THEN CollapseWhitespace(Tail(text))
              ELSE <<" ">> \o CollapseWhitespace(Tail(text))
         ELSE <<text[1]>> \o CollapseWhitespace(Tail(text))

\* Line 72: .strip()
RECURSIVE Strip(_)
Strip(text) ==
    IF text = <<>> THEN <<>>
    ELSE IF text[1] \in Whitespace THEN Strip(Tail(text))
    ELSE IF text[Len(text)] \in Whitespace
         THEN Strip(SubSeq(text, 1, Len(text) - 1))
    ELSE text

\* Lines 70-72
CleanText(text) ==
    Strip(CollapseWhitespace(ReplaceHyphens(ReplaceDoubleHyphens(
        RemoveDirectives(text)))))

\* Line 174: clean_text.split(): the pieces between runs of whitespace
RECURSIVE Split(_, _)
Split(text, word) ==
    IF text = <<>> THEN (IF word = <<>> THEN <<>> ELSE <<word>>)
    ELSE IF text[1] \in Whitespace
         THEN (IF word = <<>> THEN <<>> ELSE <<word>>) \o Split(Tail(text), <<>>)
         ELSE Split(Tail(text), Append(word, text[1]))

\* A float that is the exact quotient num/den (in tenths of a second)
Quotient(num, den) == [num |-> num, den |-> den]

\* Lines 203: {start_time} in the f-string, the text of the float
FormatFloat(q) == IntDigits(q.num) \o <<"/">> \o IntDigits(q.den)

\* Lines 176 and 182-186: the window of word number idx (0-based) of n
FallbackWindow(idx, n, duration) ==
    LET word_duration == Quotient(duration, n)
        start_time == Quotient(idx * word_duration.num, word_duration.den)
        end_time == IF idx = n - 1 THEN Quotient(duration, 1)
                    ELSE Quotient((idx + 1) * word_duration.num,
                                  word_duration.den)
    IN  <<FormatFloat(start_time), FormatFloat(end_time)>>

\* Lines 188-204
FallbackDrawtext(words, idx, duration) ==
    Op("drawtext", <<SafeWord(words[idx + 1]),
                     FallbackWindow(idx, Len(words), duration)>>)

\* Lines 172-204: no alignment; every word of the cleaned text gets an equal
\* slice of the audio's duration
PS_Fallback ==
    /\ s_pc = "subs"
    /\ seg.text # <<>>
    /\ ~seg.has_alignment
    /\ LET words == Split(CleanText(seg.text), <<>>)
       IN  video_ops' = video_ops \o
              [k \in 1..Len(words) |->
                  FallbackDrawtext(words, k - 1, audio_duration)]
    /\ s_pc' = "output"
    /\ UNCHANGED <<seg, audio_duration, video_in, audio_ops, parser_vars,
                   render, s_exc>>
    /\ UNCHANGED main_vars

\* ------------------------------------------------------------ the render
\* Lines 208-221: ffmpeg.output(v, in_audio, output_path, ..., t=audio_duration)
\* runs to the end
PS_Render ==
    /\ s_pc = "output"
    /\ render' = [called |-> TRUE, t |-> audio_duration, path_written |-> TRUE]
    /\ fs' = fs \cup {TempPath(i)}
    /\ s_pc' = "returned"
    /\ UNCHANGED <<seg, audio_duration, video_in, video_ops, audio_ops,
                   parser_vars, s_exc>>
    /\ UNCHANGED <<pc, N, i, temp_files, concat_list, created, remove_calls,
                   stdout, stderr, exc, caught, seg_result, final_result,
                   exit_status>>

\* Lines 221-227: out.run() raises ffmpeg.Error, which is logged and re-raised
PS_RenderError ==
    /\ s_pc = "output"
    /\ \E partial \in BOOLEAN :
          /\ render' = [called |-> TRUE, t |-> audio_duration,
                        path_written |-> partial]
          /\ fs' = IF partial THEN fs \cup {TempPath(i)} ELSE fs
    /\ stderr' = Append(stderr, "ffmpeg_error")
    /\ s_exc' = "ffmpeg.Error"
    /\ s_pc' = "raised"
    /\ UNCHANGED <<seg, audio_duration, video_in, video_ops, audio_ops,
                   parser_vars>>
    /\ UNCHANGED <<pc, N, i, temp_files, concat_list, created, remove_calls,
                   stdout, exc, caught, seg_result, final_result, exit_status>>

SegmentNext ==
    \/ PS_InputError
    \/ PS_Probe
    \/ PS_ProbeError
    \/ PS_VideoOps
    \/ PS_NoText
    \/ PS_BeginAlignment
    \/ PS_ScanChar
    \/ PS_LastWord
    \/ PS_DrawWords
    \/ PS_Fallback
    \/ PS_Render
    \/ PS_RenderError

SpecSegment == SegmentInit /\ [][SegmentNext]_vars

\* The steps of a call that takes the fallback branch
FallbackNext ==
    \/ PS_Probe
    \/ PS_ProbeError
    \/ PS_VideoOps
    \/ PS_Fallback
    \/ PS_Render
    \/ PS_RenderError

SpecFallback == FallbackInit /\ [][FallbackNext]_vars

\* ======================================================================
\* Claims about process_segment()
\* ======================================================================
Chars == seg.characters
Starts == seg.character_start_times_seconds
Ends == seg.character_end_times_seconds
Brackets == {"[", "]"}

\* Character k follows a '[' that no ']' has closed: the last bracket before
\* it is '['. (Every character of a closed [...] group is such a character.)
InDirective(k) ==
    \E j \in 1..(k - 1) :
        /\ Chars[j] = "["
        /\ \A m \in (j + 1)..(k - 1) : Chars[m] \notin Brackets

Visible(k) == Chars[k] \notin Brackets /\ ~InDirective(k)

RECURSIVE VisibleText(_, _)
VisibleText(a, b) ==
    IF a > b THEN <<>>
    ELSE (IF Visible(a) THEN <<Chars[a]>> ELSE <<>>) \o VisibleText(a + 1, b)

NoHyphens(text) == SelectSeq(text, LAMBDA c : c # "-")

\* The alignment branch has finished scanning this segment's characters.
ParseDone ==
    /\ seg.text # <<>>
    /\ seg.has_alignment
    /\ \/ s_pc \in {"draw", "output", "returned"}
       \/ s_pc = "raised" /\ render.called

\* C6: no '[' or ']' and no character inside a [...] directive (closed,
\* unclosed or re-opened) is in the text of a WordSpan, and no such character
\* gives a WordSpan its start or end time: every span's text is the
\* hyphen-free text of the visible characters between a visible first and a
\* visible last character, whose times it carries.
C6_DirectivesExcluded ==
    \A n \in 1..Len(words_with_timing) :
        LET w == words_with_timing[n] IN
        /\ \A k \in 1..Len(w.text) : w.text[k] \notin Brackets
        /\ \E a, b \in 1..Len(Chars) :
              /\ a <= b
              /\ Visible(a) /\ Visible(b)
              /\ w.start = Starts[a]
              /\ w.end = Ends[b]
              /\ w.text = NoHyphens(VisibleText(a, b))

C6_Witness ==
    /\ s_pc = "draw"
    /\ Len(words_with_timing) >= 2
    /\ \E k \in 1..Len(Chars) : InDirective(k) /\ Chars[k] = "a"

\* ---- words as maximal runs
WordChar(k) == Visible(k) /\ Chars[k] # " "
Separator(k) == Visible(k) /\ Chars[k] = " "
Joined(a, b) == \A m \in a..b : ~Separator(m)

\* a..b is a maximal run of non-space characters outside brackets
IsRun(a, b) ==
    /\ a <= b
    /\ WordChar(a) /\ WordChar(b)
    /\ Joined(a, b)
    /\ ~ \E j \in 1..(a - 1) : WordChar(j) /\ Joined(j, a)
    /\ ~ \E j \in (b + 1)..Len(Chars) : WordChar(j) /\ Joined(b, j)

RunText(r) == NoHyphens(VisibleText(r[1], r[2]))
AllRuns == {r \in (1..Len(Chars)) \X (1..Len(Chars)) : IsRun(r[1], r[2])}
NonEmptyRuns == {r \in AllRuns : RunText(r) # <<>>}
NonBlankRuns ==
    {r \in AllRuns : \E k \in 1..Len(RunText(r)) : RunText(r)[k] \notin Whitespace}

\* words_with_timing is exactly the runs of R, in input order, each with its
\* hyphen-free text, its first character's start and its last character's end
WordsAre(R) ==
    /\ Len(words_with_timing) = Cardinality(R)
    /\ \A r \in R :
          words_with_timing[1 + Cardinality({q \in R : q[1] < r[1]})] =
              [text |-> RunText(r), start |-> Starts[r[1]], end |-> Ends[r[2]]]

\* C7 (as claimed): one WordSpan per maximal run whose text is non-empty
\* after removing hyphens.
C7_OneSpanPerNonEmptyRun == ParseDone => WordsAre(NonEmptyRuns)

\* C7 (amended): one WordSpan, in input order, per maximal run of non-space
\* characters outside brackets whose text, after removing hyphens, is not
\* made of whitespace only; text, start and end as claimed, the last word
\* flushed at the end of the input.
C7_OneSpanPerNonBlankRun == ParseDone => WordsAre(NonBlankRuns)

C7_Witness ==
    /\ s_pc = "returned"
    /\ Chars = ExampleChars
    /\ words_with_timing =
          <<[text |-> <<"g", "o">>, start |-> 6, end |-> 8],
            [text |-> <<"n", "o", "w">>, start |-> 9, end |-> 13]>>

\* ---- the plan process_segment() hands to the engine
Has(ops, name) == \E k \in 1..Len(ops) : ops[k].op = name
OpsNamed(ops, name) == SelectSeq(ops, LAMBDA o : o.op = name)

\* The conformance strategy the video chain implements: a reversed copy of
\* the source makes a ping-pong loop, a setpts that rescales timestamps makes
\* a slow-down, anything else is a trim (of the looping input).
PlanKind ==
    IF Has(video_ops, "reverse") THEN "PingPongLoop"
    ELSE IF \E k \in 1..Len(video_ops) :
                /\ video_ops[k].op = "setpts"
                /\ video_ops[k].args # <<"PTS-STARTPTS">>
         THEN "SlowDown"
    ELSE "Trim"

VideoPlanned == s_pc \in {"subs", "scan", "draw", "output", "returned"}

\* C8 (as claimed): with target duration T and native video duration V the
\* plan's output duration is T, and the plan is Trim when V >= T, SlowDown
\* when 1 < T/V <= 1.5 and PingPongLoop when T/V > 1.5.
C8_ConformancePlan ==
    VideoPlanned =>
        LET T == seg.target_duration
            V == seg.native_video_duration
        IN  /\ OpsNamed(video_ops, "trim")[1].args = <<T>>
            /\ render.called => render.t = T
            /\ V >= T => PlanKind = "Trim"
            /\ V > 0 /\ V < T /\ 2 * T <= 3 * V => PlanKind = "SlowDown"
            /\ V > 0 /\ 2 * T > 3 * V => PlanKind = "PingPongLoop"

\* The atempo stages of the audio chain, in thousandths
TempoFactors ==
    [k \in 1..Len(OpsNamed(audio_ops, "atempo")) |->
        OpsNamed(audio_ops, "atempo")[k].args[1]]

RECURSIVE Product(_)
Product(fs_) ==
    IF fs_ = <<>> THEN 1 ELSE Head(fs_) * Product(Tail(fs_))

RECURSIVE Power(_, _)
Power(b, e) == IF e = 0 THEN 1 ELSE b * Power(b, e - 1)

\* C9 (as claimed): when the segment is rendered every emitted tempo factor
\* lies in [0.5, 2.0] and the product of the factors is
\* inputAudioDuration / targetDuration.
C9_TempoChain ==
    render.called =>
        /\ \A k \in 1..Len(TempoFactors) :
              TempoFactors[k] >= 500 /\ TempoFactors[k] <= 2000
        /\ Product(TempoFactors) * seg.target_duration =
              audio_duration * Power(1000, Len(TempoFactors))

\* What the engine reads back from the decimal text of an enable window
DigitValue(c) == CHOOSE d \in 0..9 : DigitChars[d + 1] = c

RECURSIVE ParseInt(_)
ParseInt(ds) ==
    IF Len(ds) = 0 THEN 0
    ELSE 10 * ParseInt(SubSeq(ds, 1, Len(ds) - 1)) + DigitValue(ds[Len(ds)])

ParseSeconds(txt) ==
    10 * ParseInt(SubSeq(txt, 1, Len(txt) - 2)) + DigitValue(txt[Len(txt)])

Cues == OpsNamed(video_ops, "drawtext")
EnableStart(cue) == ParseSeconds(cue.args[2][1])
EnableEnd(cue) == ParseSeconds(cue.args[2][2])

CuesDrawn == ParseDone /\ s_pc # "draw"

\* C10 (as claimed): the cue of WordSpan n has enableStart = k * start and
\* enableEnd = k * end for k = targetDuration / inputAudioDuration (k = 1
\* when the two differ by at most 0.1 s and no tempo adjustment applies).
C10_CuesScaled ==
    CuesDrawn =>
        /\ Len(Cues) = Len(words_with_timing)
        /\ \A n \in 1..Len(Cues) :
              LET w == words_with_timing[n]
                  T == seg.target_duration
                  A == audio_duration
              IN  IF A - T <= 1 /\ T - A <= 1
                  THEN /\ EnableStart(Cues[n]) = w.start
                       /\ EnableEnd(Cues[n]) = w.end
                  ELSE /\ EnableStart(Cues[n]) * A = T * w.start
                       /\ EnableEnd(Cues[n]) * A = T * w.end

\* What holds instead of C10: the cues the code draws are the WordSpans
\* themselves, unscaled and in order, whatever the target duration is.
CuesAreTheSpans ==
    CuesDrawn =>
        /\ Len(Cues) = Len(words_with_timing)
        /\ \A n \in 1..Len(Cues) :
              /\ EnableStart(Cues[n]) = words_with_timing[n].start
              /\ EnableEnd(Cues[n]) = words_with_timing[n].end
              /\ EnableEnd(Cues[n]) >= EnableStart(Cues[n])

\* ---- the fallback: words of the cleaned text
Text == seg.text

\* j..l is a bracketed directive: a '[' and the nearest ']' after it
IsDirective(j, l) ==
    /\ j < l
    /\ Text[j] = "["
    /\ Text[l] = "]"
    /\ \A m \in j..(l - 1) : Text[m] # "]"

Removed(k) ==
    \E j \in 1..k, l \in k..Len(Text) : IsDirective(j, l)

\* after the directives are gone, hyphens and whitespace separate the words
TextSeparator(k) == ~Removed(k) /\ Text[k] \in Whitespace \cup {"-"}
TextWordChar(k) == ~Removed(k) /\ Text[k] \notin Whitespace \cup {"-"}
TextJoined(a, b) == \A m \in a..b : ~TextSeparator(m)

IsTextWord(a, b) ==
    /\ a <= b
    /\ TextWordChar(a) /\ TextWordChar(b)
    /\ TextJoined(a, b)
    /\ ~ \E j \in 1..(a - 1) : TextWordChar(j) /\ TextJoined(j, a)
    /\ ~ \E j \in (b + 1)..Len(Text) : TextWordChar(j) /\ TextJoined(b, j)

RECURSIVE KeptText(_, _)
KeptText(a, b) ==
    IF a > b THEN <<>>
    ELSE (IF Removed(a) THEN <<>> ELSE <<Text[a]>>) \o KeptText(a + 1, b)

TextWords ==
    {r \in (1..Len(Text)) \X (1..Len(Text)) : IsTextWord(r[1], r[2])}

\* What the engine reads back from the text of a float
ParseFloat(txt) ==
    LET slash == CHOOSE k \in 1..Len(txt) : txt[k] = "/"
    IN  [num |-> ParseInt(SubSeq(txt, 1, slash - 1)),
         den |-> ParseInt(SubSeq(txt, slash + 1, Len(txt)))]

FallbackCues == OpsNamed(video_ops, "drawtext")
WindowStart(cue) == ParseFloat(cue.args[2][1])
WindowEnd(cue) == ParseFloat(cue.args[2][2])
SameTime(p, q) == p.num * q.den = q.num * p.den

FallbackDone ==
    /\ seg.text # <<>>
    /\ ~seg.has_alignment
    /\ \/ s_pc \in {"output", "returned"}
       \/ s_pc = "raised" /\ render.called

\* The n words of the cleaned text have one cue each, in text order; word idx
\* (0-based) has the window [idx*D/n, (idx+1)*D/n]; windows are contiguous,
\* the first starts at 0, the last ends at D; no word, no cue.
EvenlyDistributed ==
    LET n == Cardinality(TextWords)
        D == audio_duration
    IN  /\ Len(FallbackCues) = n
        /\ \A r \in TextWords :
              LET idx == Cardinality({q \in TextWords : q[1] < r[1]})
                  cue == FallbackCues[idx + 1]
              IN  /\ cue.args[1] = KeptText(r[1], r[2])
                  /\ SameTime(WindowStart(cue), Quotient(idx * D, n))
                  /\ SameTime(WindowEnd(cue), Quotient((idx + 1) * D, n))
        /\ \A k \in 1..(n - 1) :
              SameTime(WindowEnd(FallbackCues[k]),
                       WindowStart(FallbackCues[k + 1]))
        /\ n > 0 =>
              /\ WindowStart(FallbackCues[1]).num = 0
              /\ SameTime(WindowEnd(FallbackCues[n]), Quotient(D, 1))

\* C11 (as claimed): without alignment data every word of the cleaned text
\* (bracketed directives removed, hyphens replaced by spaces, whitespace
\* collapsed) gets one cue, in text order, with the window
\* [i*D/n, (i+1)*D/n]; the windows are contiguous, start at 0 and end at D;
\* a cleaned text without words gets no cue.
C11_FallbackEvenDistribution == FallbackDone => EvenlyDistributed

\* No bracketed directive of the text contains a line break.
DirectivesOnOneLine ==
    \A j, l \in 1..Len(Text) :
        IsDirective(j, l) => \A m \in j..l : Text[m] # "\n"

\* What holds instead of C11: the same, for texts whose directives do not
\* run over a line break.
FallbackEvenOnOneLine ==
    FallbackDone /\ DirectivesOnOneLine => EvenlyDistributed

====
